---- MODULE Spec2Model ----
(***************************************************************************)
(* cfileshare: the interactive client of src/index.js as a state machine.  *)
(* One screen is active at a time (pc); the awaited calls that are still   *)
(* open and enclose the active screen in a try block are kept in stack,    *)
(* because a rejected prompt or request is delivered to the innermost of   *)
(* them.  The remote service, the user and the local file system are the   *)
(* environment: their answers are drawn from small sets.                   *)
(***************************************************************************)
EXTENDS Integers, Sequences, FiniteSets, TLC

\* Largest number of open try blocks (nested awaited calls) explored.
MaxStack == 3

\* src/index.js:16
MAX_FILE_SIZE == 5 * 1024 * 1024

---------------------------------------------------------------------------
\* Strings are sequences of characters, so that trimming, quote removal and
\* the key=value parsing of the credential file are computed, not assumed.

RECURSIVE TrimLeft(_)
TrimLeft(s) ==
    IF s # <<>> /\ Head(s) = " " THEN TrimLeft(Tail(s)) ELSE s

RECURSIVE TrimRight(_)
TrimRight(s) ==
    IF s # <<>> /\ s[Len(s)] = " " THEN TrimRight(SubSeq(s, 1, Len(s) - 1)) ELSE s

\* String.prototype.trim
Trim(s) == TrimRight(TrimLeft(s))

IsQuote(c) == c \in {"'", "\""}

\* input.trim().replace(/["']/g, '')
NormalizePath(input) == SelectSeq(Trim(input), LAMBDA c : ~IsQuote(c))

\* The local files the user can name: path -> size in bytes.  One file has
\* exactly the maximum size, one is a byte larger, one has a quote in its name.
LocalSize(p) ==
    CASE p = <<"z">>      -> 0
      [] p = <<"m">>      -> MAX_FILE_SIZE
      [] p = <<"g">>      -> MAX_FILE_SIZE + 1
      [] p = <<"q", "'">> -> 1
      [] OTHER            -> -1

\* fs.existsSync
ExistsSync(p) == LocalSize(p) >= 0

\* The texts typed at the upload prompt.
Paths ==
    { <<>>, <<" ">>, <<"z">>, <<"m">>, <<"g">>, <<"n">>,
      <<"'", "m", "'">>, <<" ", "z">>, <<"q", "'">>, <<"'", "g", "'">> }

\* Variant: a file of exactly the maximum size is refused.
Validate_AtLimit(input) ==
    LET p == NormalizePath(input) IN
    IF p = <<>> THEN "File path is required"
    ELSE IF ~ExistsSync(p) THEN "File does not exist"
    ELSE IF LocalSize(p) >= MAX_FILE_SIZE THEN "File size exceeds maximum limit of 5MB"
    ELSE "ok"

\* validate of the upload prompt: "ok" for true, or the message of the rejection.
Validate(input) ==
    LET p == NormalizePath(input) IN
    IF p = <<>> THEN "File path is required"
    ELSE IF ~ExistsSync(p) THEN "File does not exist"
    ELSE IF LocalSize(p) > MAX_FILE_SIZE THEN "File size exceeds maximum limit of 5MB"
    ELSE "ok"

---------------------------------------------------------------------------
\* The credential file .env

NoFile == <<"ENOENT">>          \* the file does not exist
Undefined == <<"undefined">>    \* the JavaScript value undefined
EmptyFile == <<>>               \* a file without an auth_token entry

NoToken == <<>>                 \* auth_token absent from a body, or ''
Tokens == { <<"a">>, <<"b">>, <<" ", "a">> }

\* `auth_token=${token}`
EnvLine(token) == <<"auth_token", "=">> \o token

\* dotenv.parse(content).auth_token : the value of the auth_token entry with
\* the surrounding white space removed, undefined when there is no entry.
ParseAuthToken(content) ==
    IF Len(content) >= 2 /\ content[1] = "auth_token" /\ content[2] = "="
    THEN Trim(SubSeq(content, 3, Len(content)))
    ELSE Undefined

---------------------------------------------------------------------------
\* The service's data

Names == {"e1", "e2"}
Passwords == {"p1"}

FileA == [id |-> 1, file_name |-> "a.txt"]
FileB == [id |-> 2, file_name |-> "b.txt"]
FileC == [id |-> 3, file_name |-> "a.txt"]
FileNames == {"a.txt", "b.txt"}
FileLists == { <<>>, <<FileA>>, <<FileB, FileC>> }
Bytes == {"x", "y"}
NoBytes == "-"

Req(kind, name, pw, path, id, auth) ==
    [kind |-> kind, name |-> name, pw |-> pw, path |-> path, id |-> id, auth |-> auth]

NoReq == Req("none", "-", "-", <<>>, 0, <<>>)
\* GET /site/<name>?password=<pw>
SiteRequest(name, pw) == Req("site", name, pw, <<>>, 0, <<>>)
\* POST /createsite {site_name, password}
CreateRequest(name, pw) == Req("createsite", name, pw, <<>>, 0, <<>>)
\* POST /upload/<name>, Authorization: <auth>
UploadRequest(name, path, auth) == Req("upload", name, "-", path, 0, auth)
\* GET /getfile/<id>, Authorization: <auth>
GetFileRequest(id, auth) == Req("getfile", "-", "-", <<>>, id, auth)

\* status 0: no response was received.  data "null": the body is JSON null.
Resp(status, data, token, fls, bytes) ==
    [to |-> "-", status |-> status, data |-> data, token |-> token, files |-> fls,
     bytes |-> bytes]

NoResp == Resp(-1, "-", NoToken, <<>>, NoBytes)
\* The response r as the answer to request q.
Answer(r, q) == [r EXCEPT !.to = q.kind]
Ok(r) == r.status = 200

SiteResponses ==
    { Resp(200, "obj", t, f, NoBytes) : t \in Tokens \cup {NoToken}, f \in FileLists }
    \cup { Resp(200, "null", NoToken, <<>>, NoBytes) }
    \cup { Resp(s, d, NoToken, <<>>, NoBytes) : s \in {401, 404, 500}, d \in {"obj", "null"} }
    \cup { Resp(0, "-", NoToken, <<>>, NoBytes) }

CreateResponses ==
    { Resp(200, "obj", t, <<>>, NoBytes) : t \in Tokens \cup {NoToken} }
    \cup { Resp(200, "null", NoToken, <<>>, NoBytes) }
    \cup { Resp(409, d, NoToken, <<>>, NoBytes) : d \in {"obj", "null"} }
    \cup { Resp(0, "-", NoToken, <<>>, NoBytes) }

UploadResponses ==
    { Resp(s, "obj", NoToken, <<>>, NoBytes) : s \in {200, 500, 0} }

GetFileResponses ==
    { Resp(200, "obj", NoToken, <<>>, b) : b \in Bytes }
    \cup { Resp(s, "obj", NoToken, <<>>, NoBytes) : s \in {404, 0} }

---------------------------------------------------------------------------
VARIABLES
    pc,            \* the active screen or suspension point
    endpointName,  \* the parameters of the active file manager or sub-flow
    password,
    files,
    sel,           \* fileIndex of the download prompt (1-based), 0 when none
    stack,         \* the open try blocks around the active call, innermost last
    cred,          \* content of .env
    downloads,     \* the download directory: file name -> bytes
    inflight,      \* the HTTP request awaiting its response
    resp,          \* the response delivered by the last step that received one
    out,           \* what the last step printed last
    lastTok,       \* the token of the last create or access that returned one,
                   \* none once .env was changed from outside
    extMod,        \* .env was changed from outside since the client wrote it
    entered,       \* the text typed in the last step, when it was an upload path
    granted        \* per endpoint with a file manager, the token of the access
                   \* that opened it, none once .env was changed from outside

vars == <<pc, endpointName, password, files, sel, stack, cred, downloads,
          inflight, resp, out, lastTok, extMod, entered, granted>>

NoInput == <<"none">>

Frame(fn, name, pw, fls) == [fn |-> fn, name |-> name, pw |-> pw, files |-> fls]
Plain(fn) == Frame(fn, "-", "-", <<>>)

Top(stk) == stk[Len(stk)]
Pop(stk) == SubSeq(stk, 1, Len(stk) - 1)

Prompts == {"MainMenu", "AccessPrompt", "CreatePrompt", "FileManager",
            "UploadPrompt", "DownloadPrompt"}
Stopped == {"Exited", "Ended", "Crashed"}

NoLocals == endpointName' = "-" /\ password' = "-" /\ files' = <<>> /\ sel' = 0

Init ==
    /\ pc = "MainMenu"
    /\ endpointName = "-" /\ password = "-" /\ files = <<>> /\ sel = 0
    /\ stack = <<>>
    /\ cred \in {NoFile, EmptyFile, EnvLine(<<"a">>)}
    /\ downloads = [n \in FileNames |-> NoBytes]
    /\ inflight = NoReq
    /\ resp = NoResp
    /\ out = "none"
    /\ lastTok = NoToken
    /\ extMod = TRUE
    /\ entered = NoInput
    /\ granted = [n \in Names |-> NoToken]

---------------------------------------------------------------------------
\* Screens

\* showMainMenu up to its prompt
ShowMainMenu == pc' = "MainMenu" /\ NoLocals

\* showFileManager(endpointName, files, password) up to its prompt
ShowFileManager(name, fls, pw) ==
    /\ pc' = "FileManager"
    /\ endpointName' = name /\ files' = fls /\ password' = pw /\ sel' = 0

\* The awaited call chain returns to the top: the start-up promise resolves
\* and the process ends with nothing left to run.
ReturnToTop == pc' = "Ended" /\ stack' = <<>> /\ NoLocals

---------------------------------------------------------------------------
\* Catch blocks.  stk is the stack of open try blocks when the error is thrown.

\* showMainMenu().catch(error => console.error(...))
TopLevelCatch ==
    /\ pc' = "Crashed" /\ stack' = <<>> /\ NoLocals /\ out' = "error"

\* accessEndpoint, catch of the inner try: message, 2 s delay, showMainMenu
\* (still inside the outer try).
AccessInnerCatch(stk) ==
    /\ pc' = "Delay" /\ NoLocals /\ out' = "error"
    /\ stack' = Append(Pop(stk), Plain("A_outer"))

\* accessEndpoint, catch of the outer try: message, 2 s delay, showMainMenu.
AccessOuterCatch(stk) ==
    /\ pc' = "Delay" /\ NoLocals /\ out' = "error"
    /\ stack' = Pop(stk)

\* Variant: the main menu is shown without waiting.
CreateInnerCatch_NoDelay(stk) ==
    /\ pc' = "MainMenu" /\ NoLocals /\ out' = "error"
    /\ stack' = Append(Pop(stk), Plain("C_outer"))

\* createEndpoint, catch of the inner try.
CreateInnerCatch(stk) ==
    /\ pc' = "Delay" /\ NoLocals /\ out' = "error"
    /\ stack' = Append(Pop(stk), Plain("C_outer"))

\* createEndpoint, catch of the outer try.
CreateOuterCatch(stk) ==
    /\ pc' = "Delay" /\ NoLocals /\ out' = "error"
    /\ stack' = Pop(stk)

\* Variant: the file manager is shown again with the list at hand.
UploadCatch_KeepsList(stk) ==
    /\ out' = "error" /\ stack' = Pop(stk)
    /\ ShowFileManager(Top(stk).name, files, Top(stk).pw)

\* uploadFile, catch: message, showFileManager(endpointName, [], password).
UploadCatch(stk) ==
    /\ out' = "error" /\ stack' = Pop(stk)
    /\ ShowFileManager(Top(stk).name, <<>>, Top(stk).pw)

\* downloadFile, catch: message, showFileManager(endpointName, files, password).
DownloadCatch(stk) ==
    /\ out' = "error" /\ stack' = Pop(stk)
    /\ ShowFileManager(Top(stk).name, Top(stk).files, Top(stk).pw)

\* An error thrown under the open try blocks stk reaches the innermost one;
\* with none open it rejects the start-up promise.
Throw(stk) ==
    IF stk = <<>> THEN TopLevelCatch
    ELSE CASE Top(stk).fn = "A_inner" -> AccessInnerCatch(stk)
           [] Top(stk).fn = "A_outer" -> AccessOuterCatch(stk)
           [] Top(stk).fn = "C_inner" -> CreateInnerCatch(stk)
           [] Top(stk).fn = "C_outer" -> CreateOuterCatch(stk)
           [] Top(stk).fn = "U"       -> UploadCatch(stk)
           [] Top(stk).fn = "D"       -> DownloadCatch(stk)

---------------------------------------------------------------------------
\* Main menu (showMainMenu, the switch on the chosen option)

Quiet == resp' = NoResp /\ inflight' = NoReq

\* The endpoint n has a file manager or sub-flow that is active, or that an
\* open try block can show again, after the step.
LiveAfter(n) ==
    n = endpointName' \/ \E i \in DOMAIN stack' : stack'[i].name = n

\* granted becomes g; the entries of endpoints without any file manager left
\* are forgotten.
SetHistory(g) ==
    granted' = [n \in Names |-> IF LiveAfter(n) THEN g[n] ELSE NoToken]

KeepHistory == SetHistory(granted)
CredKept == UNCHANGED <<cred, lastTok, extMod>>

\* case 'Access Endpoint': accessEndpoint() up to its prompt
SelectAccess ==
    /\ pc = "MainMenu" /\ Len(stack) < MaxStack
    /\ pc' = "AccessPrompt" /\ NoLocals
    /\ stack' = Append(stack, Plain("A_outer"))
    /\ out' = "none" /\ Quiet /\ CredKept /\ UNCHANGED downloads
    /\ entered' = NoInput
    /\ KeepHistory

\* case 'Create Endpoint': createEndpoint() up to its prompt
SelectCreate ==
    /\ pc = "MainMenu" /\ Len(stack) < MaxStack
    /\ pc' = "CreatePrompt" /\ NoLocals
    /\ stack' = Append(stack, Plain("C_outer"))
    /\ out' = "none" /\ Quiet /\ CredKept /\ UNCHANGED downloads
    /\ entered' = NoInput
    /\ KeepHistory

\* case 'Exit': process.exit(0)
SelectExit ==
    /\ pc = "MainMenu"
    /\ pc' = "Exited" /\ NoLocals /\ stack' = <<>>
    /\ out' = "none" /\ Quiet /\ CredKept /\ UNCHANGED downloads
    /\ entered' = NoInput
    /\ KeepHistory

\* inquirer.prompt rejects (the prompt is closed, or the terminal is lost)
PromptRejects ==
    /\ pc \in Prompts
    /\ Throw(stack)
    /\ Quiet /\ CredKept /\ UNCHANGED downloads
    /\ entered' = NoInput
    /\ KeepHistory

\* setTimeout(resolve, 2000) fires, then showMainMenu()
DelayElapsed ==
    /\ pc = "Delay"
    /\ ShowMainMenu
    /\ out' = "none" /\ Quiet /\ CredKept /\ UNCHANGED <<stack, downloads>>
    /\ entered' = NoInput
    /\ KeepHistory

---------------------------------------------------------------------------
\* accessEndpoint

\* The prompt is answered: 'Accessing endpoint...', axios.get is awaited
\* inside the inner try.
AccessSubmit ==
    /\ pc = "AccessPrompt"
    /\ \E n \in Names, p \in Passwords :
         /\ endpointName' = n /\ password' = p
         /\ inflight' = SiteRequest(n, p)
    /\ pc' = "AccessReq" /\ files' = <<>> /\ sel' = 0
    /\ stack' = Append(Pop(stack), Plain("A_inner"))
    /\ out' = "info" /\ resp' = NoResp /\ CredKept /\ UNCHANGED downloads
    /\ entered' = NoInput
    /\ KeepHistory

\* if (response.data.auth_token) { writeFileSync; showFileManager }
AccessSucceeds(r) ==
    IF r.token # NoToken
    THEN /\ cred' = EnvLine(r.token) /\ lastTok' = r.token /\ extMod' = FALSE
         /\ ShowFileManager(endpointName, r.files, password)
         /\ out' = "none" /\ UNCHANGED stack
    ELSE /\ ReturnToTop /\ out' = "none" /\ CredKept

\* Variant: the credential file is written before the response is examined.
AccessFails_Writes(r) ==
    /\ cred' = EnvLine(r.token) /\ UNCHANGED <<lastTok, extMod>>
    /\ AccessInnerCatch(stack)

\* catch (error) of the inner try, for a rejected request
AccessFails(r) ==
    /\ CredKept
    /\ IF r.status # 0 /\ r.status \notin {404, 401} /\ r.data = "null"
       THEN \* error.response.data.error of null throws inside the handler
            AccessOuterCatch(stack)
       ELSE AccessInnerCatch(stack)

\* The response to GET /site/<name> arrives.
AccessResponse ==
    /\ pc = "AccessReq"
    /\ \E r \in SiteResponses :
         /\ resp' = Answer(r, inflight)
         /\ IF Ok(r) /\ r.data = "obj" THEN AccessSucceeds(r)
            ELSE IF Ok(r) THEN \* response.data.auth_token of null throws
                 CredKept /\ AccessInnerCatch(stack)
            ELSE AccessFails(r)
         /\ SetHistory(
              IF Ok(r) /\ r.data = "obj" /\ r.token # NoToken
              THEN [granted EXCEPT ![endpointName] = r.token] ELSE granted)
    /\ inflight' = NoReq /\ UNCHANGED downloads
    /\ entered' = NoInput

---------------------------------------------------------------------------
\* createEndpoint

CreateSubmit ==
    /\ pc = "CreatePrompt"
    /\ \E n \in Names, p \in Passwords :
         /\ endpointName' = n /\ password' = p
         /\ inflight' = CreateRequest(n, p)
    /\ pc' = "CreateReq" /\ files' = <<>> /\ sel' = 0
    /\ stack' = Append(Pop(stack), Plain("C_inner"))
    /\ out' = "info" /\ resp' = NoResp /\ CredKept /\ UNCHANGED downloads
    /\ entered' = NoInput
    /\ KeepHistory

\* Variant: the entry is appended to an existing credential file.
CreateSucceeds_Appends(r) ==
    /\ IF r.token # NoToken
       THEN cred' = (IF cred = NoFile THEN <<>> ELSE cred) \o EnvLine(r.token)
            /\ lastTok' = r.token /\ extMod' = FALSE /\ out' = "success"
       ELSE CredKept /\ out' = "none"
    /\ ShowMainMenu /\ UNCHANGED stack

\* if (response.data.auth_token) { writeFileSync; 'created' } showMainMenu()
CreateSucceeds(r) ==
    /\ IF r.token # NoToken
       THEN cred' = EnvLine(r.token) /\ lastTok' = r.token /\ extMod' = FALSE
            /\ out' = "success"
       ELSE CredKept /\ out' = "none"
    /\ ShowMainMenu /\ UNCHANGED stack

\* catch (error) of the inner try, for a rejected request
CreateFails(r) ==
    /\ CredKept
    /\ IF r.status # 0 /\ r.data = "null"
       THEN CreateOuterCatch(stack)
       ELSE CreateInnerCatch(stack)

\* The response to POST /createsite arrives.
CreateResponse ==
    /\ pc = "CreateReq"
    /\ \E r \in CreateResponses :
         /\ resp' = Answer(r, inflight)
         /\ IF Ok(r) /\ r.data = "obj" THEN CreateSucceeds(r)
            ELSE IF Ok(r) THEN CredKept /\ CreateInnerCatch(stack)
            ELSE CreateFails(r)
    /\ inflight' = NoReq /\ UNCHANGED downloads
    /\ entered' = NoInput
    /\ KeepHistory

---------------------------------------------------------------------------
\* showFileManager, the switch on the chosen action

\* case 'Upload File': uploadFile(endpointName, password) up to its prompt
SelectUpload ==
    /\ pc = "FileManager" /\ Len(stack) < MaxStack
    /\ pc' = "UploadPrompt"
    /\ stack' = Append(stack, Frame("U", endpointName, password, <<>>))
    /\ out' = "none" /\ Quiet /\ CredKept
    /\ UNCHANGED <<endpointName, password, files, sel, downloads>>
    /\ entered' = NoInput
    /\ KeepHistory

\* Variant: the download prompt is opened whatever the list holds.
SelectDownload_Unguarded ==
    /\ pc = "FileManager" /\ Len(stack) < MaxStack
    /\ pc' = "DownloadPrompt"
    /\ stack' = Append(stack, Frame("D", endpointName, password, files))
    /\ out' = "none" /\ Quiet /\ CredKept
    /\ UNCHANGED <<endpointName, password, files, sel, downloads>>
    /\ entered' = NoInput
    /\ KeepHistory

\* case 'Download File' with files.length > 0: downloadFile(...) up to its prompt
SelectDownload ==
    /\ pc = "FileManager" /\ Len(stack) < MaxStack
    /\ files # <<>>
    /\ pc' = "DownloadPrompt"
    /\ stack' = Append(stack, Frame("D", endpointName, password, files))
    /\ out' = "none" /\ Quiet /\ CredKept
    /\ UNCHANGED <<endpointName, password, files, sel, downloads>>
    /\ entered' = NoInput
    /\ KeepHistory

\* case 'Download File' with no files: 'No files to download', showFileManager
SelectDownloadEmpty ==
    /\ pc = "FileManager"
    /\ files = <<>>
    /\ ShowFileManager(endpointName, files, password)
    /\ out' = "info" /\ Quiet /\ CredKept
    /\ UNCHANGED <<stack, downloads>>
    /\ entered' = NoInput
    /\ KeepHistory

\* case 'Back to Menu': showMainMenu()
SelectBack ==
    /\ pc = "FileManager"
    /\ ShowMainMenu
    /\ out' = "none" /\ Quiet /\ CredKept
    /\ UNCHANGED <<stack, downloads>>
    /\ entered' = NoInput
    /\ KeepHistory

---------------------------------------------------------------------------
\* uploadFile

\* The text typed at the prompt passed validate: read .env, post the file.
UploadAccepted(input) ==
    IF cred = NoFile
    THEN \* fs.readFileSync('.env') throws
         Throw(stack) /\ UNCHANGED inflight
    ELSE /\ pc' = "UploadReq"
         /\ inflight' = UploadRequest(endpointName, NormalizePath(input),
                                       ParseAuthToken(cred))
         /\ out' = "info"
         /\ UNCHANGED <<endpointName, password, files, sel, stack>>

\* A text is typed at the upload prompt.
UploadEnter ==
    /\ pc = "UploadPrompt"
    /\ \E input \in Paths :
         /\ entered' = input
         /\ IF Validate(input) = "ok"
            THEN UploadAccepted(input)
            ELSE \* the message is shown and the prompt stays open
                 /\ out' = "invalid"
                 /\ UNCHANGED <<pc, endpointName, password, files, sel, stack, inflight>>
    /\ resp' = NoResp /\ CredKept /\ UNCHANGED downloads
    /\ KeepHistory

\* 'File uploaded successfully!', then the list is fetched again.
UploadSucceeds ==
    /\ pc' = "RefetchReq"
    /\ inflight' = SiteRequest(endpointName, password)
    /\ out' = "success"
    /\ UNCHANGED <<endpointName, password, files, sel, stack>>

\* The response to POST /upload/<name> arrives.
UploadResponse ==
    /\ pc = "UploadReq"
    /\ \E r \in UploadResponses :
         /\ resp' = Answer(r, inflight)
         /\ IF Ok(r) THEN UploadSucceeds
            ELSE Throw(stack) /\ inflight' = NoReq
    /\ CredKept /\ UNCHANGED downloads
    /\ entered' = NoInput
    /\ KeepHistory

\* Variant: the file manager is shown again with the list it already had.
RefetchSucceeds_Stale(r) ==
    /\ ShowFileManager(endpointName, files, password)
    /\ out' = "none" /\ UNCHANGED stack

\* showFileManager(endpointName, siteResponse.data.files || [], password)
RefetchSucceeds(r) ==
    /\ ShowFileManager(endpointName, r.files, password)
    /\ out' = "none" /\ UNCHANGED stack

\* Variant: a rejected list request is sent again.
RefetchResponse_Retries ==
    /\ pc = "RefetchReq"
    /\ \E r \in SiteResponses :
         /\ resp' = Answer(r, inflight)
         /\ IF Ok(r) /\ r.data = "obj"
            THEN RefetchSucceeds(r) /\ inflight' = NoReq
            ELSE /\ inflight' = SiteRequest(endpointName, password)
                 /\ out' = "error"
                 /\ UNCHANGED <<pc, endpointName, password, files, sel, stack>>
    /\ CredKept /\ UNCHANGED downloads
    /\ KeepHistory
    /\ entered' = NoInput

\* Variant: the token of the second GET /site/<name> is saved as well.
RefetchResponse_Saves ==
    /\ pc = "RefetchReq"
    /\ \E r \in SiteResponses :
         /\ resp' = Answer(r, inflight)
         /\ IF Ok(r) /\ r.data = "obj" THEN RefetchSucceeds(r)
            ELSE Throw(stack)
         /\ IF Ok(r) /\ r.data = "obj" /\ r.token # NoToken
            THEN cred' = EnvLine(r.token) /\ lastTok' = r.token
            ELSE UNCHANGED <<cred, lastTok>>
    /\ inflight' = NoReq /\ UNCHANGED <<extMod, downloads>>
    /\ KeepHistory
    /\ entered' = NoInput

\* The response to the second GET /site/<name> arrives.
RefetchResponse ==
    /\ pc = "RefetchReq"
    /\ \E r \in SiteResponses :
         /\ resp' = Answer(r, inflight)
         /\ IF Ok(r) /\ r.data = "obj" THEN RefetchSucceeds(r)
            ELSE Throw(stack)
    /\ inflight' = NoReq /\ CredKept /\ UNCHANGED downloads
    /\ KeepHistory
    /\ entered' = NoInput

---------------------------------------------------------------------------
\* downloadFile

\* A file is chosen: read .env, request the file.
DownloadChoose ==
    /\ pc = "DownloadPrompt"
    /\ \E i \in 1..Len(files) :
         IF cred = NoFile
         THEN Throw(stack) /\ UNCHANGED inflight
         ELSE /\ pc' = "DownloadReq" /\ sel' = i
              /\ inflight' = GetFileRequest(files[i].id, ParseAuthToken(cred))
              /\ out' = "info"
              /\ UNCHANGED <<endpointName, password, files, stack>>
    /\ resp' = NoResp /\ CredKept /\ UNCHANGED downloads
    /\ entered' = NoInput
    /\ KeepHistory

\* Variant: a file that already exists in the download directory is kept.
DownloadSucceeds_KeepsExisting(r) ==
    /\ downloads' = IF downloads[files[sel].file_name] = NoBytes
                    THEN [downloads EXCEPT ![files[sel].file_name] = r.bytes]
                    ELSE downloads
    /\ ShowFileManager(endpointName, files, password)
    /\ out' = "success" /\ UNCHANGED stack

\* fs.writeFileSync(downloadPath, response.data); showFileManager(.., files, ..)
DownloadSucceeds(r) ==
    /\ downloads' = [downloads EXCEPT ![files[sel].file_name] = r.bytes]
    /\ ShowFileManager(endpointName, files, password)
    /\ out' = "success" /\ UNCHANGED stack

\* Variant: the list is fetched again after a download, as after an upload.
DownloadResponse_Refetches ==
    /\ pc = "DownloadReq"
    /\ \E r \in GetFileResponses :
         /\ resp' = Answer(r, inflight)
         /\ IF Ok(r)
            THEN /\ downloads' = [downloads EXCEPT ![files[sel].file_name] = r.bytes]
                 /\ pc' = "RefetchReq" /\ out' = "success"
                 /\ inflight' = SiteRequest(endpointName, password)
                 /\ UNCHANGED <<endpointName, password, files, sel, stack>>
            ELSE Throw(stack) /\ inflight' = NoReq /\ UNCHANGED downloads
    /\ CredKept
    /\ entered' = NoInput
    /\ KeepHistory

\* The response to GET /getfile/<id> arrives.
DownloadResponse ==
    /\ pc = "DownloadReq"
    /\ \E r \in GetFileResponses :
         /\ resp' = Answer(r, inflight)
         /\ IF Ok(r) THEN DownloadSucceeds(r)
            ELSE Throw(stack) /\ UNCHANGED downloads
    /\ inflight' = NoReq /\ CredKept
    /\ entered' = NoInput
    /\ KeepHistory

---------------------------------------------------------------------------
\* Another program, or the user, removes or rewrites .env while the client runs.
CredChangedOutside ==
    /\ pc \notin Stopped
    /\ \E c \in {NoFile, EmptyFile} : c # cred /\ cred' = c
    /\ extMod' = TRUE
    \* what the client saved is no longer what the file holds
    /\ lastTok' = NoToken /\ granted' = [n \in Names |-> NoToken]
    /\ UNCHANGED <<pc, endpointName, password, files, sel, stack, downloads,
                   inflight, resp, out, entered>>

Next ==
    \/ SelectAccess \/ SelectCreate \/ SelectExit
    \/ PromptRejects \/ DelayElapsed
    \/ AccessSubmit \/ AccessResponse
    \/ CreateSubmit \/ CreateResponse
    \/ SelectUpload \/ SelectDownload \/ SelectDownloadEmpty \/ SelectBack
    \/ UploadEnter \/ UploadResponse \/ RefetchResponse
    \/ DownloadChoose \/ DownloadResponse
    \/ CredChangedOutside

Spec == Init /\ [][Next]_vars

TypeOK ==
    /\ pc \in Prompts \cup Stopped \cup
             {"Delay", "AccessReq", "CreateReq", "UploadReq", "RefetchReq", "DownloadReq"}
    /\ Len(stack) <= MaxStack
    /\ sel \in 0..2

---------------------------------------------------------------------------
\* Properties

\* A step of the client that leaves the suspension point p.
Leaves(p) == pc = p /\ pc' # p

\* C1 (as stated): every return to the file manager from an upload or a
\* download that succeeded is the delivery of a 2xx answer to an access
\* request (GET /site/<name>), and shows the list of that answer.
C1_RefetchAfterEverySubflow ==
    [][ (pc \in {"UploadReq", "RefetchReq", "DownloadReq"}
            /\ pc' = "FileManager" /\ Ok(resp'))
        => (resp'.to = "site" /\ files' = resp'.files) ]_vars

\* C1 (amended): a successful upload is followed by GET /site/<name> with the
\* session password before the file manager is shown, and a 2xx answer with a
\* body puts its list on the screen; a successful download shows the file
\* manager again with the list it had, without any request.
C1_RefetchAfterUploadOnly ==
    [][ /\ (Leaves("UploadReq") /\ Ok(resp'))
            => (pc' = "RefetchReq" /\ inflight' = SiteRequest(endpointName, password))
        /\ Leaves("UploadReq") => pc' # "FileManager" \/ ~Ok(resp')
        /\ (Leaves("RefetchReq") /\ Ok(resp') /\ resp'.data = "obj")
            => /\ pc' = "FileManager" /\ resp'.to = "site"
               /\ files' = resp'.files
               /\ endpointName' = endpointName /\ password' = password
        /\ (Leaves("DownloadReq") /\ Ok(resp'))
            => /\ pc' = "FileManager" /\ inflight' = NoReq
               /\ files' = files /\ endpointName' = endpointName ]_vars

\* An upload was followed by a list request whose non-empty list is displayed.
C1_Witness ==
    /\ pc = "FileManager" /\ stack # <<>> /\ Top(stack).fn = "U"
    /\ resp.to = "site" /\ Ok(resp) /\ resp.files = <<FileB, FileC>>
    /\ files = resp.files

\* C2 (as stated): a 2xx answer on the AccessEndpoint screen always leads to
\* the file manager of that endpoint, whatever the body.
C2_SuccessEntersFileManager ==
    [][ (Leaves("AccessReq") /\ Ok(resp'))
        => (pc' = "FileManager" /\ endpointName' = endpointName) ]_vars

\* C3: a failed access or create request (non-2xx, or no response) leaves the
\* credential file as it was, and the client goes through the delay to the
\* main menu, not to the file manager.
C3_FailureKeepsCredential ==
    [][ /\ (pc \in {"AccessReq", "CreateReq"} /\ pc' # pc /\ ~Ok(resp'))
            => (cred' = cred /\ pc' = "Delay")
        /\ Leaves("Delay") => (cred' = cred /\ pc' = "MainMenu") ]_vars

\* A 404 to an access request with no credential file: still none.
C3_Witness ==
    /\ pc = "Delay" /\ resp.to = "site" /\ resp.status = 404
    /\ cred = NoFile

\* C4: a create request answered 2xx with token T leaves exactly
\* auth_token=T in the credential file and shows the main menu.
C4_CreateSavesAndReturns ==
    [][ (Leaves("CreateReq") /\ Ok(resp') /\ resp'.data = "obj"
            /\ resp'.token # NoToken)
        => (cred' = EnvLine(resp'.token) /\ pc' = "MainMenu") ]_vars

\* Token b was saved by a create, replacing the file's earlier content.
C4_Witness ==
    /\ pc = "MainMenu" /\ resp.to = "createsite" /\ Ok(resp)
    /\ resp.token = <<"b">> /\ cred = EnvLine(<<"b">>) /\ ~extMod

\* C5 (as stated): the token an upload or download sends is the token
\* returned by the last create or access that returned one, as long as
\* nothing but the client wrote the credential file since.
C5_LoadReturnsLastSaved ==
    (pc \in {"UploadReq", "DownloadReq"} /\ ~extMod) => inflight.auth = lastTok

\* C6 (as stated): when the credential file is absent or has no auth_token
\* entry at the moment an upload or download loads it, no request is issued,
\* an error is shown and the file manager is displayed again.
C6_MissingCredentialAborts ==
    [][ (pc \in {"UploadPrompt", "DownloadPrompt"} /\ pc' # pc
            /\ (cred = NoFile \/ ParseAuthToken(cred) = Undefined))
        => (inflight' = NoReq /\ out' = "error" /\ pc' = "FileManager") ]_vars

\* C7 (as stated): no error ends the process.
C7_ErrorNeverEndsProcess == pc # "Crashed"

\* The outcome of the text in entered.
Rejected == out = "invalid"
NothingSent == pc = "UploadPrompt" /\ inflight = NoReq

\* C8 (as stated): the entered path is rejected when it does not exist or is
\* larger than MAX_FILE_SIZE, accepted when it exists and is not larger, and
\* while it is rejected nothing is sent.
C8_ValidatesEnteredPath ==
    entered # NoInput =>
        /\ ~ExistsSync(entered) => Rejected
        /\ (ExistsSync(entered) /\ LocalSize(entered) > MAX_FILE_SIZE) => Rejected
        /\ (ExistsSync(entered) /\ LocalSize(entered) <= MAX_FILE_SIZE) => ~Rejected
        /\ Rejected => NothingSent

\* C8 (amended): the same, of the path obtained from the entered text by
\* trimming it and removing its quote characters.
C8_ValidatesNormalizedPath ==
    entered # NoInput =>
        LET p == SelectSeq(Trim(entered), LAMBDA c : c # "'" /\ c # "\"") IN
        /\ ~ExistsSync(p) => Rejected
        /\ (ExistsSync(p) /\ LocalSize(p) > 5 * 1024 * 1024) => Rejected
        /\ (ExistsSync(p) /\ LocalSize(p) <= 5 * 1024 * 1024) => ~Rejected
        /\ Rejected => NothingSent

\* The quoted name of the file of exactly the maximum size was accepted and
\* its upload is in flight.
C8_Witness ==
    /\ entered = <<"'", "m", "'">> /\ pc = "UploadReq"
    /\ inflight.kind = "upload" /\ inflight.path = <<"m">>

\* C9: choosing entry i requests GET /getfile/<files[i].id> with the token of
\* the credential file as Authorization; its answer ends the exchange, a 2xx
\* answer replaces <downloads>/<files[i].file_name> by the bytes received and
\* any other answer leaves the download directory as it was.
C9_DownloadSelected ==
    [][ /\ (pc = "DownloadPrompt" /\ pc' = "DownloadReq")
            => /\ sel' \in 1..Len(files)
               /\ inflight' = GetFileRequest(files[sel'].id, ParseAuthToken(cred))
               /\ downloads' = downloads
        /\ Leaves("DownloadReq")
            => /\ inflight' = NoReq /\ resp'.to = "getfile"
               /\ downloads' = IF Ok(resp')
                                THEN [downloads EXCEPT ![files[sel].file_name] = resp'.bytes]
                                ELSE downloads ]_vars

\* Two downloads were made; the second replaced a.txt, whose bytes were x.
C9_Witness ==
    /\ pc = "FileManager" /\ resp.to = "getfile" /\ Ok(resp)
    /\ Len(stack) = 3 /\ stack[2].fn = "D" /\ stack[3].fn = "D"
    /\ files = <<FileB, FileC>>
    /\ downloads["a.txt"] = "y" /\ downloads["b.txt"] = NoBytes
    /\ resp.bytes = "y"

\* C10: with an empty list, choosing download sends nothing and writes
\* nothing; the file manager of the same endpoint is shown again with the
\* empty list, and the download prompt is never opened on an empty list.
C10_EmptyListDownloadRedisplays ==
    [][ (pc = "FileManager" /\ files = <<>>)
        => /\ pc' # "DownloadPrompt"
           /\ (out' = "info")
               => /\ pc' = "FileManager" /\ files' = <<>>
                  /\ endpointName' = endpointName /\ password' = password
                  /\ inflight' = NoReq /\ downloads' = downloads
                  /\ stack' = stack ]_vars

\* 'No files to download' was printed and the empty file manager is open.
C10_Witness ==
    /\ pc = "FileManager" /\ files = <<>> /\ out = "info"
    /\ endpointName \in Names /\ inflight = NoReq

Requests == {"AccessReq", "CreateReq", "UploadReq", "RefetchReq", "DownloadReq"}

\* C11: a failure on the AccessEndpoint or CreateEndpoint screen (the prompt
\* rejects, the request is rejected, or a 2xx body is null) prints the error
\* and starts the delay; during the delay no request is made and the only
\* screen that follows it is the main menu.
C11_ErrorDelayMenu ==
    [][ /\ (pc \in {"AccessPrompt", "CreatePrompt"} /\ pc' # pc
                /\ pc' \notin {"AccessReq", "CreateReq"})
            => (pc' = "Delay" /\ out' = "error" /\ inflight' = NoReq)
        /\ (pc \in {"AccessReq", "CreateReq"} /\ pc' # pc
                /\ (~Ok(resp') \/ resp'.data = "null"))
            => (pc' = "Delay" /\ out' = "error" /\ inflight' = NoReq)
        /\ pc = "Delay"
            => (inflight = NoReq /\ inflight' = NoReq /\ pc' \in {"Delay", "MainMenu"})
      ]_vars

\* A create request was refused with 409: the error is printed and the delay
\* runs inside createEndpoint's outer try.
C11_Witness ==
    /\ pc = "Delay" /\ out = "error" /\ inflight = NoReq
    /\ resp.to = "createsite" /\ resp.status = 409 /\ resp.data = "obj"
    /\ stack # <<>> /\ Top(stack).fn = "C_outer"

\* C12: the step that receives a rejected request (create, access, upload,
\* download or list re-fetch) sends nothing and ends at a prompt or in the
\* delay; a request is only ever sent by the answer to a prompt, or as the
\* list re-fetch that follows a successful upload.
C12_NoAutomaticRetry ==
    [][ /\ (pc \in Requests /\ resp'.status \notin {200, -1})
            => (inflight' = NoReq /\ pc' \in Prompts \cup {"Delay"})
        /\ (inflight' # NoReq /\ inflight' # inflight)
            => (pc \in Prompts \/ (pc = "UploadReq" /\ Ok(resp')))
        /\ pc = "Delay" => inflight' = NoReq ]_vars

\* The list re-fetch after an upload was answered 500: the file manager is
\* open again and nothing is in flight.
C12_Witness ==
    /\ pc = "FileManager" /\ resp.to = "site" /\ resp.status = 500
    /\ inflight = NoReq /\ out = "error"

\* C13 (as stated): the list displayed is the list of the most recent 2xx
\* answer to GET /site/<name>, also on the way back from an upload that
\* failed or whose list re-fetch failed.  A sub-flow starts from the file
\* manager, whose list is files; when its request step returns to the file
\* manager without delivering a new list, the most recent answer is still the
\* one behind files, so files must be displayed again.
C13_DisplayedListIsServedList ==
    [][ (pc \in {"UploadReq", "RefetchReq", "DownloadReq"} /\ pc' = "FileManager")
        => IF resp'.to = "site" /\ Ok(resp') /\ resp'.data = "obj"
           THEN files' = resp'.files
           ELSE files' = files ]_vars

\* C13 (amended): the list displayed depends on the way into the file
\* manager: the list of the 2xx answer on the AccessEndpoint screen or of the
\* re-fetch after an upload; the list held before, after a download and on the
\* redisplay of an empty list; the list the download sub-flow was started
\* with, when that sub-flow catches an error; the empty list, when the upload
\* sub-flow catches one.
C13_ListByEntryPath ==
    [][ pc' = "FileManager"
        => \/ /\ pc \in {"AccessReq", "RefetchReq"}
              /\ resp'.to = "site" /\ Ok(resp') /\ resp'.data = "obj"
              /\ files' = resp'.files
           \/ pc = "DownloadReq" /\ Ok(resp') /\ files' = files
           \/ /\ stack # <<>> /\ Top(stack).fn = "U" /\ out' = "error"
              /\ files' = <<>> /\ endpointName' = Top(stack).name
           \/ /\ stack # <<>> /\ Top(stack).fn = "D" /\ out' = "error"
              /\ files' = Top(stack).files /\ endpointName' = Top(stack).name
           \/ /\ pc = "FileManager" /\ out' \in {out, "info"}
              /\ files' = files /\ endpointName' = endpointName ]_vars

\* An upload was answered 500 in a file manager that listed a.txt (the list
\* is still in the open download block): the list displayed is empty.
C13_Witness ==
    /\ pc = "FileManager" /\ files = <<>> /\ out = "error"
    /\ resp.to = "upload" /\ resp.status = 500
    /\ Len(stack) = 2 /\ stack[2].fn = "D"
    /\ stack[2].name = endpointName /\ stack[2].files = <<FileA>>

\* C14 (as stated): while nothing else modifies the credential file, every
\* upload or download request sent from the file manager of endpoint E
\* carries the token returned by the access that opened the file manager
\* for E.
C14_RequestCarriesGrantedToken ==
    (/\ pc \in {"UploadReq", "DownloadReq"} /\ ~extMod
     /\ granted[endpointName] # NoToken)
        => inflight.auth = granted[endpointName]

\* The second half of C14 alone, up to the white space that loading the
\* credential strips: the token sent is the one granted for the endpoint of
\* the file manager, never one granted for another endpoint.  Violated too:
\* an error thrown in a later screen is caught by an older sub-flow, which
\* shows its file manager again over the credential of a later access.
C14_NeverAnotherEndpointsToken ==
    (/\ pc \in {"UploadReq", "DownloadReq"} /\ ~extMod
     /\ granted[endpointName] # NoToken)
        => inflight.auth = ParseAuthToken(EnvLine(granted[endpointName]))

\* C15: the client writes the credential file only on a 2xx answer with a
\* non-empty auth_token to the request of the AccessEndpoint or CreateEndpoint
\* screen, and then writes that token; every step of the upload and download
\* sub-flows, of the list re-fetch (whatever its answer carries), of the file
\* manager and of the main menu leaves the file as it is.  The only other
\* change is the one made from outside, which is no step of the client.
C15_OnlyAccessAndCreateWrite ==
    [][ /\ cred' # cred
            => \/ /\ pc \in {"AccessReq", "CreateReq"}
                  /\ Ok(resp') /\ resp'.data = "obj" /\ resp'.token # NoToken
                  /\ cred' = EnvLine(resp'.token)
               \/ /\ cred' \in {NoFile, EmptyFile} /\ extMod'
                  /\ UNCHANGED <<pc, stack, inflight, resp, out, files, downloads>>
        /\ (pc \notin {"AccessReq", "CreateReq"} /\ pc' # pc) => cred' = cred
      ]_vars

\* The list re-fetch after an upload was answered with token b and the file
\* manager is displayed; the credential file still holds token a.
C15_Witness ==
    /\ pc = "FileManager" /\ ~extMod
    /\ resp.to = "site" /\ Ok(resp) /\ resp.token = <<"b">>
    /\ cred = EnvLine(<<"a">>)

\* A request is sent in this step: one goes out that was not out before, or
\* one is out after an answer came in.
Sent == inflight' # NoReq /\ (inflight' # inflight \/ resp' # resp)

\* C16 (as stated): between two displays of a screen the client sends at most
\* one request, so every request is sent by the step that leaves a prompt,
\* never by a step that receives the answer to an earlier request.
C16_OneCallPerScreen == [][ Sent => pc \in Prompts ]_vars

\* C16 (amended): a request is sent only when no other is unanswered, by the
\* step that leaves a prompt or, in the upload sub-flow, by the step that
\* receives the 2xx answer to the upload, which sends the list re-fetch; the
\* answer to the re-fetch sends nothing, so a screen makes at most two calls.
C16_OneCallExceptUploadRefetch ==
    [][ /\ Sent
            => \/ pc \in Prompts /\ inflight = NoReq /\ pc' \in Requests
               \/ /\ pc = "UploadReq" /\ resp'.to = "upload" /\ Ok(resp')
                  /\ inflight' = SiteRequest(endpointName, password)
                  /\ pc' = "RefetchReq"
        /\ pc = "RefetchReq" => inflight' \in {inflight, NoReq}
        /\ pc \in Prompts \cup {"Delay"} \cup Stopped => inflight = NoReq
      ]_vars

\* The upload was answered 200 and the list re-fetch is out: the second
\* request since the upload prompt was displayed.
C16_Witness ==
    /\ pc = "RefetchReq" /\ resp.to = "upload" /\ Ok(resp)
    /\ inflight = SiteRequest(endpointName, password)

====
